---- MODULE Spec2Model ----
(***************************************************************************)
(* Model of the ecs-repo-branch CDK application: the entry point main.ts,  *)
(* the shared stack VpcStack and the per-branch stack ServiceStack.  One   *)
(* invocation synthesizes the app from its context (branch, version); the  *)
(* lookup store (SSM parameters) persists from one invocation to the next  *)
(* and receives the parameters a synthesized app declares when that app is *)
(* deployed.                                                               *)
(***************************************************************************)
EXTENDS Integers, Sequences, FiniteSets, TLC

VARIABLES
    pc,        \* position in main.ts, or the outcome of the invocation
    context,   \* the invocation context: [branch, version], JavaScript values
    azs,       \* availability zones of the target environment
    branch,    \* main.ts const branch
    version,   \* main.ts const version
    vpc,       \* main.ts const vpc: the constructed VpcStack, or Undefined
    service,   \* main.ts const service: the constructed ServiceStack, or Undefined
    tags,      \* tags added with Tags.of(scope).add: records [scope, key, value]
    store,     \* the lookup store: records [name, value]
    published, \* names written to the store by this invocation's deployment
    readLog,   \* lookups performed so far: [key, found, sharedDeployed]
    sharedDeployed, \* TRUE once a VpcStack has been deployed
    units      \* per-branch units synthesized so far: [branch, names, keys]

vars == <<pc, context, azs, branch, version, vpc, service, tags, store,
          published, readLog, sharedDeployed, units>>

(* ------------------------------ bounds -------------------------------- *)

\* Largest number of availability zones (public subnets) of an environment.
MaxAzs == 2

\* Context values an invocation may carry for 'branch' and for 'version'.
BranchStrings == {"", "a", "b", "db-a"}
VersionStrings == {"", "1"}

(* ------------------------- JavaScript values -------------------------- *)

Undefined == [kind |-> "undefined"]
Null == [kind |-> "null"]
Str(s) == [kind |-> "string", value |-> s]

\* ToBoolean: undefined, null and '' are falsy; objects and other strings truthy.
Truthy(v) ==
    CASE v.kind = "undefined" -> FALSE
      [] v.kind = "null" -> FALSE
      [] v.kind = "string" -> v.value # ""
      [] OTHER -> TRUE

\* a || b
OrElse(a, b) == IF Truthy(a) THEN a ELSE b

\* `${v}`
TemplateString(v) ==
    CASE v.kind = "undefined" -> "undefined"
      [] v.kind = "null" -> "null"
      [] v.kind = "string" -> v.value
      [] OTHER -> "[object Object]"

Digit == <<"1", "2", "3", "4", "5", "6", "7", "8", "9">>

ContextValues(strings) == {Undefined} \cup {Str(s) : s \in strings}

Contexts ==
    [branch : ContextValues(BranchStrings), version : ContextValues(VersionStrings)]

(* ------------------------------ VpcStack ------------------------------ *)

\* Secret.fromSecretNameV2(this, 'db-admin', 'dev/db-admin'): a reference to a
\* secret that already exists; it declares no resource.
fromSecretNameV2(id, secretName) ==
    [kind |-> "object", imported |-> TRUE, id |-> id, secretName |-> secretName,
     removalPolicy |-> "NONE",
     secretArn |-> "arn:aws:secretsmanager:secret:" \o secretName]

\* new Secret(this, 'db-admin', {secretName, removalPolicy: RETAIN, ...})
NewSecret(id, secretName) ==
    [kind |-> "object", imported |-> FALSE, id |-> id, secretName |-> secretName,
     removalPolicy |-> "RETAIN",
     secretArn |-> "${VpcStack/" \o id \o ".Ref}"]

\* this.adminSecret = Secret.fromSecretNameV2(...) || new Secret(...)
AdminSecret ==
    LET imported == fromSecretNameV2("db-admin", "dev/db-admin")
    IN  IF Truthy(imported) THEN imported ELSE NewSecret("db-admin", "dev/db-admin")

\* vpc.publicSubnets: one public subnet per availability zone.
PublicSubnets(n) ==
    [i \in 1..n |-> [subnetId |-> "${VpcStack/VPC/publicSubnet" \o Digit[i] \o ".Ref}"]]

InterfaceEndpoints ==
    {"ECR Docker Endpoint", "ECR API Endpoint", "ECS Agent Endpoint",
     "ECS Telemetry Endpoint", "ECS Endpoint", "Secrets Endpoint", "SSM Endpoint",
     "SSM Messages Endpoint", "EC2 Messages Endpoint", "CloudWatch Endpoint",
     "CloudWatch Logs Endpoint"}

\* new StringParameter(this, `VpcId`, {parameterName: `vpcid`, stringValue: vpc.vpcId})
\* Variant: the construct id used as the parameter name.
VpcIdParameterMisnamed ==
    [id |-> "VpcId", type |-> "StringParameter", parameterName |-> "VpcId",
     stringValue |-> "${VpcStack/VPC.Ref}"]
VpcIdParameter ==
    [id |-> "VpcId", type |-> "StringParameter", parameterName |-> "vpcid",
     stringValue |-> "${VpcStack/VPC.Ref}"]

\* The resources the VpcStack constructor declares (imports declare none).
VpcStackResources(secret) ==
    {[id |-> "Task Execution Policy", type |-> "ManagedPolicy"],
     [id |-> "Task Execution Role", type |-> "Role"],
     [id |-> "Task Definition Policy", type |-> "ManagedPolicy"],
     [id |-> "Task Definition Role", type |-> "Role"],
     [id |-> "VPC", type |-> "Vpc"],
     [id |-> "SQL-SG", type |-> "SecurityGroup"],
     [id |-> "Fargate", type |-> "Cluster"],
     [id |-> "S3 Gateway Endpoint", type |-> "GatewayVpcEndpoint"]}
    \cup {[id |-> e, type |-> "InterfaceVpcEndpoint"] : e \in InterfaceEndpoints}
    \cup (IF secret.imported THEN {}
          ELSE {[id |-> secret.id, type |-> "Secret", secretName |-> secret.secretName,
                 removalPolicy |-> secret.removalPolicy]})
    \cup {VpcIdParameter}

\* new VpcStack(app, id, {env, description})
VpcStack(id, n) ==
    [kind |-> "object",
     id |-> id,
     cluster |-> [clusterArn |-> "${VpcStack/Fargate.Arn}",
                  clusterName |-> "${VpcStack/Fargate.Ref}"],
     vpcSG |-> [securityGroupId |-> "${VpcStack/VPC.DefaultSecurityGroup}"],
     sqlSG |-> [securityGroupId |-> "${VpcStack/SQL-SG.GroupId}"],
     subnets |-> PublicSubnets(n),
     adminSecret |-> AdminSecret,
     taskDefinitionExecutionRole |-> [roleArn |-> "${VpcStack/Task Execution Role.Arn}"],
     taskDefinitionTaskRole |-> [roleArn |-> "${VpcStack/Task Definition Role.Arn}"],
     lookups |-> {},
     resources |-> VpcStackResources(AdminSecret)]

(* ---------------------------- ServiceStack ---------------------------- *)

\* StringParameter.valueFromLookup(this, name): the value the lookup store holds
\* under the name at synthesis, a placeholder when it holds none.
valueFromLookup(st, name) ==
    IF \E e \in st : e.name = name
    THEN [found |-> TRUE, value |-> (CHOOSE e \in st : e.name = name).value]
    ELSE [found |-> FALSE, value |-> "dummy-value-for-" \o name]

\* The names the constructor gives the unit's resources.
\* Variant: the service named after the version.
ServiceStackNamesByVersion(props) ==
    [targetGroupName |-> TemplateString(props.branch),
     loadBalancerName |-> TemplateString(props.branch),
     family |-> TemplateString(props.branch),
     serviceName |-> "service-" \o TemplateString(props.version),
     instanceIdentifier |-> "db-" \o TemplateString(props.branch)]
ServiceStackNames(props) ==
    [targetGroupName |-> TemplateString(props.branch),
     loadBalancerName |-> TemplateString(props.branch),
     family |-> TemplateString(props.branch),
     serviceName |-> "service-" \o TemplateString(props.branch),
     instanceIdentifier |-> "db-" \o TemplateString(props.branch)]

\* new ApplicationTargetGroup(this, 'Target Group', {...})
TargetGroup(props) ==
    [id |-> "Target Group", type |-> "ApplicationTargetGroup",
     targetGroupName |-> ServiceStackNames(props).targetGroupName,
     targetType |-> "IP", protocol |-> "HTTP", port |-> 5000]

\* new ApplicationLoadBalancer(this, 'Load Balancer', {...})
LoadBalancer(props) ==
    [id |-> "Load Balancer", type |-> "ApplicationLoadBalancer",
     loadBalancerName |-> ServiceStackNames(props).loadBalancerName,
     internetFacing |-> TRUE, securityGroup |-> props.vpcSGId]

\* new ApplicationListener(this, 'Listener 80', ...) and
\* new ApplicationListener(this, 'Listener 5000', ...): both are given the one
\* targetGroup object, named here by its construct id.
\* Variant: the second listener routed to a pool of its own.
ListenersOnTwoPools(targetGroup, alb) ==
    {[id |-> "Listener 80", type |-> "ApplicationListener", loadBalancer |-> alb.id,
      defaultTargetGroups |-> <<targetGroup.id>>, open |-> FALSE, port |-> 80],
     [id |-> "Listener 5000", type |-> "ApplicationListener", loadBalancer |-> alb.id,
      defaultTargetGroups |-> <<targetGroup.id \o " 5000">>, open |-> FALSE, port |-> 5000]}
Listeners(targetGroup, alb) ==
    {[id |-> "Listener 80", type |-> "ApplicationListener", loadBalancer |-> alb.id,
      defaultTargetGroups |-> <<targetGroup.id>>, open |-> FALSE, port |-> 80],
     [id |-> "Listener 5000", type |-> "ApplicationListener", loadBalancer |-> alb.id,
      defaultTargetGroups |-> <<targetGroup.id>>, open |-> FALSE, port |-> 5000]}

\* Duration.days(n), in hours
DurationDays(n) == n * 24

\* new DatabaseInstanceFromSnapshot(this, 'MS-SQL', dbInstanceProps)
\* Variant: one branch's instance retained with a week of backups.
DatabaseInstanceKeptForMain(props) ==
    [id |-> "MS-SQL", type |-> "DatabaseInstanceFromSnapshot",
     snapshotIdentifier |-> "snapshot",
     instanceIdentifier |-> ServiceStackNames(props).instanceIdentifier,
     securityGroups |-> <<props.sqlSGId>>,
     credentials |-> props.adminSecretArn,
     backupRetention |-> IF props.branch = Str("a") THEN DurationDays(7) ELSE DurationDays(0),
     deleteAutomatedBackups |-> TRUE,
     publiclyAccessible |-> TRUE,
     deletionProtection |-> FALSE,
     removalPolicy |-> IF props.branch = Str("a") THEN "RETAIN" ELSE "DESTROY"]
DatabaseInstance(props) ==
    [id |-> "MS-SQL", type |-> "DatabaseInstanceFromSnapshot",
     snapshotIdentifier |-> "snapshot",
     instanceIdentifier |-> ServiceStackNames(props).instanceIdentifier,
     securityGroups |-> <<props.sqlSGId>>,
     credentials |-> props.adminSecretArn,
     backupRetention |-> DurationDays(0),
     deleteAutomatedBackups |-> TRUE,
     publiclyAccessible |-> TRUE,
     deletionProtection |-> FALSE,
     removalPolicy |-> "DESTROY"]

\* new FargateTaskDefinition(this, 'TaskDefinition', ...) with its container
TaskDefinition(props) ==
    [id |-> "TaskDefinition", type |-> "FargateTaskDefinition",
     family |-> ServiceStackNames(props).family,
     executionRole |-> props.taskDefinitionExecutionRoleArn,
     taskRole |-> props.taskDefinitionTaskRoleArn,
     container |-> "container-" \o TemplateString(props.branch),
     imageTag |-> props.version,
     streamPrefix |-> TemplateString(props.branch)]

\* new FargateService(this, 'Fargate', ...) and
\* service.attachToApplicationTargetGroup(targetGroup)
FargateService(props, targetGroup) ==
    [id |-> "Fargate", type |-> "FargateService",
     serviceName |-> ServiceStackNames(props).serviceName,
     taskDefinition |-> "TaskDefinition",
     clusterArn |-> props.clusterArn, clusterName |-> props.clusterName,
     subnets |-> props.subnets,
     securityGroups |-> <<props.vpcSGId, props.sqlSGId>>,
     desiredCount |-> 1,
     targetGroups |-> <<targetGroup.id>>]

\* The three parameters the constructor publishes: name and value of each.
\* Variant: the second parameter published under the first one's name.
OutputParametersCopied(props) ==
    {[id |-> TemplateString(props.branch) \o "-db-host", type |-> "StringParameter",
      parameterName |-> TemplateString(props.branch) \o "-db-host",
      stringValue |-> "${MS-SQL.Endpoint.Address}"],
     [id |-> TemplateString(props.branch) \o "-service-arn", type |-> "StringParameter",
      parameterName |-> TemplateString(props.branch) \o "-db-host",
      stringValue |-> "${Fargate.Ref}"],
     [id |-> TemplateString(props.branch) \o "-alb-dns-name", type |-> "StringParameter",
      parameterName |-> TemplateString(props.branch) \o "-alb-dns-name",
      stringValue |-> "${Load Balancer.DNSName}"]}
OutputParameters(props) ==
    {[id |-> TemplateString(props.branch) \o "-db-host", type |-> "StringParameter",
      parameterName |-> TemplateString(props.branch) \o "-db-host",
      stringValue |-> "${MS-SQL.Endpoint.Address}"],
     [id |-> TemplateString(props.branch) \o "-service-arn", type |-> "StringParameter",
      parameterName |-> TemplateString(props.branch) \o "-service-arn",
      stringValue |-> "${Fargate.Ref}"],
     [id |-> TemplateString(props.branch) \o "-alb-dns-name", type |-> "StringParameter",
      parameterName |-> TemplateString(props.branch) \o "-alb-dns-name",
      stringValue |-> "${Load Balancer.DNSName}"]}

\* new ServiceStack(app, id, props), against the lookup store st
ServiceStack(id, props, st) ==
    LET vpcId == valueFromLookup(st, "vpcid")
        targetGroup == TargetGroup(props)
        alb == LoadBalancer(props)
    IN  [kind |-> "object",
         id |-> id,
         props |-> props,
         vpcId |-> vpcId,
         lookups |-> {"vpcid"},
         resources |->
             {targetGroup, alb}
             \cup Listeners(targetGroup, alb)
             \cup {DatabaseInstance(props), TaskDefinition(props),
                   FargateService(props, targetGroup)}
             \cup OutputParameters(props)]

(* ------------------------------- main.ts ------------------------------ *)

\* app.node.tryGetContext(key)
tryGetContext(ctx, key) == ctx[key]

\* if (branch)
\* Variant: the per-branch unit constructed unconditionally.
BranchGuardAlways(b) == TRUE
BranchGuard(b) == Truthy(b)

\* `Service-${branch}-Stack`
ServiceStackId(b) == "Service-" \o TemplateString(b) \o "-Stack"

\* The props main.ts hands to the ServiceStack constructor.
\* Variant: the data-tier security group passed for both boundaries.
MainServicePropsSwapped(v, b, ver) ==
    [branch |-> b,
     version |-> ver,
     clusterArn |-> v.cluster.clusterArn,
     clusterName |-> v.cluster.clusterName,
     vpcSGId |-> v.sqlSG.securityGroupId,
     sqlSGId |-> v.sqlSG.securityGroupId,
     subnets |-> [i \in DOMAIN v.subnets |-> v.subnets[i].subnetId],
     adminSecretArn |-> v.adminSecret.secretArn,
     taskDefinitionExecutionRoleArn |-> v.taskDefinitionExecutionRole.roleArn,
     taskDefinitionTaskRoleArn |-> v.taskDefinitionTaskRole.roleArn]
MainServiceProps(v, b, ver) ==
    [branch |-> b,
     version |-> ver,
     clusterArn |-> v.cluster.clusterArn,
     clusterName |-> v.cluster.clusterName,
     vpcSGId |-> v.vpcSG.securityGroupId,
     sqlSGId |-> v.sqlSG.securityGroupId,
     subnets |-> [i \in DOMAIN v.subnets |-> v.subnets[i].subnetId],
     adminSecretArn |-> v.adminSecret.secretArn,
     taskDefinitionExecutionRoleArn |-> v.taskDefinitionExecutionRole.roleArn,
     taskDefinitionTaskRoleArn |-> v.taskDefinitionTaskRole.roleArn]

\* Tags.of(scope).add(key, value)
TagsAdd(scope, key, value) == [scope |-> scope, key |-> key, value |-> value]

(* ------------------------ reading a synthesized app ------------------- *)

ResourcesOfType(stack, type) == {r \in stack.resources : r.type = type}

ResourceOfType(stack, type) == CHOOSE r \in stack.resources : r.type = type

\* The names of the lookup entries a stack declares.
ParameterNames(stack) ==
    {r.parameterName : r \in ResourcesOfType(stack, "StringParameter")}

\* The lookup entries a stack declares.
Parameters(stack) ==
    {[name |-> r.parameterName, value |-> r.stringValue] :
        r \in ResourcesOfType(stack, "StringParameter")}

\* The stacks of the app synthesized by this invocation.
Stacks == {s \in {vpc, service} : s # Undefined}

\* A tag applies to every resource within its scope.
HasTag(stack, key, value) ==
    \E t \in tags : t.scope \in {"App", stack.id} /\ t.key = key /\ t.value = value

\* What the history keeps of a synthesized per-branch unit.
Unit(stack) ==
    [branch |-> stack.props.branch,
     names |->
         [targetGroupName |->
              ResourceOfType(stack, "ApplicationTargetGroup").targetGroupName,
          loadBalancerName |->
              ResourceOfType(stack, "ApplicationLoadBalancer").loadBalancerName,
          family |-> ResourceOfType(stack, "FargateTaskDefinition").family,
          serviceName |-> ResourceOfType(stack, "FargateService").serviceName,
          instanceIdentifier |->
              ResourceOfType(stack, "DatabaseInstanceFromSnapshot").instanceIdentifier,
          stackId |-> stack.id],
     keys |-> ParameterNames(stack),
     lookups |-> stack.lookups]

(* ------------------------------- actions ------------------------------ *)

Init ==
    /\ pc = "idle"
    /\ context = [branch |-> Undefined, version |-> Undefined]
    /\ azs = 1
    /\ branch = Null
    /\ version = Null
    /\ vpc = Undefined
    /\ service = Undefined
    /\ tags = {}
    /\ store = {}
    /\ published = {}
    /\ readLog = {}
    /\ sharedDeployed = FALSE
    /\ units = {}

\* main.ts lines 7-13: a new invocation with context ctx, in an environment of
\* n availability zones.
Invoke(ctx, n) ==
    /\ pc \in {"idle", "deployed", "failed"}
    /\ context' = ctx
    /\ azs' = n
    /\ branch' = OrElse(tryGetContext(ctx, "branch"), Null)
    /\ version' = OrElse(tryGetContext(ctx, "version"), Null)
    /\ vpc' = Undefined
    /\ service' = Undefined
    /\ tags' = {}
    /\ published' = {}
    /\ pc' = "line15"
    /\ UNCHANGED <<store, readLog, sharedDeployed, units>>

\* main.ts line 15
ConstructVpc ==
    /\ pc = "line15"
    /\ vpc' = VpcStack("VpcStack", azs)
    /\ pc' = "line16"
    /\ UNCHANGED <<context, azs, branch, version, service, tags, store, published,
                   readLog, sharedDeployed, units>>

\* main.ts lines 16-29
ConstructService ==
    /\ pc = "line16"
    /\ BranchGuard(branch)
    /\ service' = ServiceStack(ServiceStackId(branch),
                               MainServiceProps(vpc, branch, version), store)
    /\ readLog' = readLog \cup
           {[key |-> k, found |-> valueFromLookup(store, k).found,
             sharedDeployed |-> sharedDeployed] : k \in service'.lookups}
    /\ units' = units \cup {Unit(service')}
    /\ pc' = "line30"
    /\ UNCHANGED <<context, azs, branch, version, vpc, tags, store, published,
                   sharedDeployed>>

\* main.ts lines 30-31
TagService ==
    /\ pc = "line30"
    /\ tags' = tags \cup {TagsAdd(service.id, "branch", TemplateString(branch)),
                          TagsAdd(service.id, "version", TemplateString(version))}
    /\ pc' = "line34"
    /\ UNCHANGED <<context, azs, branch, version, vpc, service, store, published,
                   readLog, sharedDeployed, units>>

\* main.ts line 16, the branch not taken
SkipService ==
    /\ pc = "line16"
    /\ ~BranchGuard(branch)
    /\ pc' = "line34"
    /\ UNCHANGED <<context, azs, branch, version, vpc, service, tags, store,
                   published, readLog, sharedDeployed, units>>

\* main.ts line 34
TagApp ==
    /\ pc = "line34"
    /\ tags' = tags \cup {TagsAdd("App", "App", "ecs-repo-branch")}
    /\ pc' = "synthesized"
    /\ UNCHANGED <<context, azs, branch, version, vpc, service, store, published,
                   readLog, sharedDeployed, units>>

\* Every lookup of the synthesized app found its value.
LookupsResolved == IF service = Undefined THEN TRUE ELSE service.vpcId.found

\* The synthesized app is deployed: the parameters its stacks declare are
\* written to the lookup store, replacing the entries of the same names.
Deploy ==
    /\ pc = "synthesized"
    /\ LookupsResolved
    /\ LET new == UNION {Parameters(s) : s \in Stacks}
           names == {e.name : e \in new}
       IN  /\ store' = {e \in store : e.name \notin names} \cup new
           /\ published' = names
    /\ sharedDeployed' = TRUE
    /\ pc' = "deployed"
    /\ UNCHANGED <<context, azs, branch, version, vpc, service, tags, readLog, units>>

\* A lookup found nothing: the synthesis fails and nothing is deployed.
FailSynth ==
    /\ pc = "synthesized"
    /\ ~LookupsResolved
    /\ pc' = "failed"
    /\ UNCHANGED <<context, azs, branch, version, vpc, service, tags, store,
                   published, readLog, sharedDeployed, units>>

Next ==
    \/ \E ctx \in Contexts, n \in 1..MaxAzs : Invoke(ctx, n)
    \/ ConstructVpc
    \/ ConstructService
    \/ TagService
    \/ SkipService
    \/ TagApp
    \/ Deploy
    \/ FailSynth

Spec == Init /\ [][Next]_vars

(* ------------------------------- claims ------------------------------- *)

\* main.ts has run past the if statement of line 16.
PastBranch == pc \in {"line34", "synthesized", "deployed", "failed"}

NonEmpty(v) == v.kind = "string" /\ v.value # ""

\* C1: in an invocation whose context holds no branch, only the shared unit is
\* produced: no ServiceStack is constructed, no 'branch' or 'version' tag is
\* added, the only lookup entry declared is 'vpcid', and a deployment writes
\* exactly 'vpcid'.
C1_BranchAbsentOnlyShared ==
    context.branch = Undefined =>
        /\ service = Undefined
        /\ \A t \in tags : t.key \notin {"branch", "version"}
        /\ \A s \in Stacks : ParameterNames(s) = {"vpcid"}
        /\ PastBranch => Stacks = {vpc}
        /\ pc = "deployed" => published = {"vpcid"}

\* An invocation without a branch has been synthesized and deployed.
C1_Witness ==
    /\ pc = "deployed"
    /\ context.branch = Undefined
    /\ vpc # Undefined
    /\ published = {"vpcid"}

\* C2 as claimed: no per-branch unit ever reads 'vpcid' before the shared unit's
\* value has been published to the store.
C2_ReadNeverBeforePublish == \A r \in readLog : r.found

\* C2 as amended: a per-branch unit reads only 'vpcid', and the read finds a
\* published value exactly when a shared unit was deployed by an earlier
\* invocation; once deployed the entry stays in the store.
C2_ReadFindsIffSharedDeployed ==
    /\ \A r \in readLog : r.key = "vpcid" /\ (r.found <=> r.sharedDeployed)
    /\ sharedDeployed <=> (\E e \in store : e.name = "vpcid")

\* A per-branch unit read 'vpcid' after a deployment of the shared unit, and
\* another one read it from the empty store.
C2_Witness ==
    /\ [key |-> "vpcid", found |-> TRUE, sharedDeployed |-> TRUE] \in readLog
    /\ [key |-> "vpcid", found |-> FALSE, sharedDeployed |-> FALSE] \in readLog

\* C3: once a per-branch unit is constructed and tagged, every resource of it
\* carries a tag 'branch' and a tag 'version' equal to the branch and version
\* of the invocation context.
C3_TagsEqualContext ==
    (service # Undefined /\ PastBranch) =>
        \A r \in service.resources :
            /\ context.branch.kind = "string"
            /\ HasTag(service, "branch", context.branch.value)
            /\ context.version.kind = "string"
            /\ HasTag(service, "version", context.version.value)

\* C4: the names of a per-branch unit's resources are the stated functions of
\* the branch alone, and two units of distinct branches share no name of the
\* same kind.
C4_NamesFromBranchNoCollision ==
    /\ \A u \in units :
           LET b == u.branch.value
           IN  u.names = [targetGroupName |-> b,
                          loadBalancerName |-> b,
                          family |-> b,
                          serviceName |-> "service-" \o b,
                          instanceIdentifier |-> "db-" \o b,
                          stackId |-> "Service-" \o b \o "-Stack"]
    /\ \A u1, u2 \in units :
           /\ u1.branch = u2.branch => u1.names = u2.names
           /\ u1.branch # u2.branch =>
                  \A k \in DOMAIN u1.names : u1.names[k] # u2.names[k]

\* Units of two distinct branches, one name a suffix of the other's, have been
\* synthesized, and the same branch was synthesized under two versions.
C4_Witness ==
    /\ \E u1, u2 \in units : u1.branch = Str("a") /\ u2.branch = Str("db-a")
    /\ service # Undefined
    /\ service.props.branch = Str("a")
    /\ service.props.version = Str("1")
    /\ \E r \in readLog : r.found

\* C5: the shared unit declares exactly 'vpcid' and reads nothing; a per-branch
\* unit of branch b declares exactly b-db-host, b-service-arn and b-alb-dns-name
\* and reads exactly 'vpcid'; the three keys are distinct, none is 'vpcid', the
\* keys of two distinct branches never coincide, and the store holds no other key.
C5_LookupKeys ==
    /\ vpc # Undefined => ParameterNames(vpc) = {"vpcid"} /\ vpc.lookups = {}
    /\ \A u \in units :
           LET b == u.branch.value
           IN  /\ u.keys = {b \o "-db-host", b \o "-service-arn", b \o "-alb-dns-name"}
               /\ Cardinality(u.keys) = 3
               /\ "vpcid" \notin u.keys
               /\ u.lookups = {"vpcid"}
    /\ \A u1, u2 \in units : u1.branch # u2.branch => u1.keys \cap u2.keys = {}
    /\ {e.name : e \in store} \subseteq {"vpcid"} \cup UNION {u.keys : u \in units}
    /\ \A e1, e2 \in store : e1.name = e2.name => e1 = e2

\* Two per-branch units have been deployed: the store holds 'vpcid' and the
\* three keys of each.
C5_Witness ==
    /\ Cardinality(store) = 7
    /\ \E e \in store : e.name = "db-a-service-arn"
    /\ \E e \in store : e.name = "a-db-host"

\* C6: in a per-branch unit the listeners on ports 80 and 5000 both default to
\* the unit's one target pool, the service registers into that pool, and the
\* unit declares no second target pool.
C6_ListenersShareOnePool ==
    service # Undefined =>
        LET pools == ResourcesOfType(service, "ApplicationTargetGroup")
            listeners == ResourcesOfType(service, "ApplicationListener")
        IN  /\ Cardinality(pools) = 1
            /\ {l.port : l \in listeners} = {80, 5000}
            /\ Cardinality(listeners) = 2
            /\ \A l \in listeners, p \in pools : l.defaultTargetGroups = <<p.id>>
            /\ \A f \in ResourcesOfType(service, "FargateService"), p \in pools :
                   f.targetGroups = <<p.id>>

\* A per-branch unit with its two listeners has been synthesized.
C6_Witness ==
    /\ pc = "synthesized"
    /\ service # Undefined
    /\ \E l \in ResourcesOfType(service, "ApplicationListener") : l.port = 5000
    /\ \E l \in ResourcesOfType(service, "ApplicationListener") : l.port = 80

\* C7: a per-branch unit exists only after the shared unit of the same
\* invocation was constructed; every shared-unit output among its props is the
\* value the constructed shared unit holds, and its only lookup is 'vpcid'.
C7_ServiceAfterVpcInProcess ==
    service # Undefined =>
        /\ vpc # Undefined
        /\ service.props.clusterArn = vpc.cluster.clusterArn
        /\ service.props.clusterName = vpc.cluster.clusterName
        /\ service.props.vpcSGId = vpc.vpcSG.securityGroupId
        /\ service.props.sqlSGId = vpc.sqlSG.securityGroupId
        /\ service.props.subnets =
               [i \in DOMAIN vpc.subnets |-> vpc.subnets[i].subnetId]
        /\ service.props.adminSecretArn = vpc.adminSecret.secretArn
        /\ service.props.taskDefinitionExecutionRoleArn =
               vpc.taskDefinitionExecutionRole.roleArn
        /\ service.props.taskDefinitionTaskRoleArn = vpc.taskDefinitionTaskRole.roleArn
        /\ service.lookups = {"vpcid"}
        /\ \A e \in store :
               e.value \notin {service.props.clusterArn, service.props.clusterName,
                               service.props.vpcSGId, service.props.sqlSGId,
                               service.props.adminSecretArn,
                               service.props.taskDefinitionExecutionRoleArn,
                               service.props.taskDefinitionTaskRoleArn}

\* A per-branch unit was constructed right after the shared unit, in an
\* environment of two availability zones, with the store already holding entries.
C7_Witness ==
    /\ pc = "line30"
    /\ service # Undefined
    /\ vpc # Undefined
    /\ Len(service.props.subnets) = 2
    /\ store # {}

\* C8: the shared unit declares the credential 'dev/db-admin' as a resource of
\* its own with removal policy RETAIN, and the credential it exposes is that
\* resource.
C8_CredentialCreatedRetained ==
    vpc # Undefined =>
        /\ Cardinality(ResourcesOfType(vpc, "Secret")) = 1
        /\ \A r \in ResourcesOfType(vpc, "Secret") :
               /\ r.secretName = "dev/db-admin"
               /\ r.removalPolicy = "RETAIN"
               /\ vpc.adminSecret.id = r.id
        /\ ~vpc.adminSecret.imported

\* C9: the database instance of every per-branch unit is declared with removal
\* policy DESTROY, backup retention zero, automated backups deleted and deletion
\* protection off, whatever the branch and version.
C9_DatabaseEphemeral ==
    service # Undefined =>
        /\ Cardinality(ResourcesOfType(service, "DatabaseInstanceFromSnapshot")) = 1
        /\ \A d \in ResourcesOfType(service, "DatabaseInstanceFromSnapshot") :
               /\ d.removalPolicy = "DESTROY"
               /\ d.backupRetention = 0
               /\ d.deleteAutomatedBackups
               /\ ~d.deletionProtection

\* A per-branch unit was synthesized for branch 'a' without a version, after
\* units of other branches.
C9_Witness ==
    /\ service # Undefined
    /\ context = [branch |-> Str("a"), version |-> Undefined]
    /\ \E d \in ResourcesOfType(service, "DatabaseInstanceFromSnapshot") :
           d.instanceIdentifier = "db-a"
    /\ Cardinality(units) = 3

\* C10: a per-branch unit is constructed only with every input of its contract
\* present and non-empty.
C10_InputsNonEmpty ==
    service # Undefined =>
        /\ NonEmpty(service.props.branch)
        /\ NonEmpty(service.props.version)
        /\ service.props.clusterArn # ""
        /\ service.props.clusterName # ""
        /\ service.props.vpcSGId # ""
        /\ service.props.sqlSGId # ""
        /\ Len(service.props.subnets) > 0
        /\ \A i \in DOMAIN service.props.subnets : service.props.subnets[i] # ""
        /\ service.props.adminSecretArn # ""
        /\ service.props.taskDefinitionExecutionRoleArn # ""
        /\ service.props.taskDefinitionTaskRoleArn # ""

====
